---------------------------- MODULE Spec2Model ----------------------------
(***************************************************************************)
(* Model of the colouring-book builders: cover_builder.py (wraparound      *)
(* cover) and interior_builder.py (interior document).                     *)
(*                                                                         *)
(* Lengths in inches are exact rationals counted in millionths of an inch  *)
(* (MICRO), so that 0.002252 in is 2252.  Text (trim strings, file names)  *)
(* is a sequence of one-character strings.  An optional value (None in the *)
(* source) is a sequence of length 0 or 1.                                 *)
(***************************************************************************)
EXTENDS Integers, Sequences, FiniteSets, TLC

\* ------------------------------------------------------------------ units

\* millionths of an inch per inch: the unit lengths are counted in
MICRO == 1000 * 1000

DPI == 300
BLEED_IN == 125000
SAFE_MARGIN_IN == 250000
BARCODE_W_IN == 2000000
BARCODE_H_IN == 1200000
BARCODE_BOTTOM_OFFSET_IN == 250000

PAPER_THICKNESS ==
    [white |-> 2252, cream |-> 2500, color_premium |-> 2347, color_standard |-> 2252]

Papers == DOMAIN PAPER_THICKNESS

RECURSIVE Gcd(_, _)
Gcd(a, b) == IF b = 0 THEN a ELSE Gcd(b, a % b)

Min(a, b) == IF a <= b THEN a ELSE b
Max(a, b) == IF a >= b THEN a ELSE b

\* the rounding rule a truncating conversion would apply instead
PyRoundTrunc(n, d) == n \div d

\* Python 3 round() of the non-negative rational n/d: to the nearest integer,
\* a tie to the even neighbour.
PyRound(n, d) ==
    LET q == n \div d
        r == n % d
    IN  IF 2 * r < d THEN q
        ELSE IF 2 * r > d THEN q + 1
        ELSE IF q % 2 = 0 THEN q ELSE q + 1

\* int(round(inches * dpi)), inches in millionths; dpi/MICRO is reduced first
\* so that the product stays a machine integer.
InchesToPxAt(inches, dpi) ==
    LET g == Gcd(MICRO, dpi)
    IN  PyRound(inches * (dpi \div g), MICRO \div g)

inches_to_px(inches) == InchesToPxAt(inches, DPI)

\* ------------------------------------------------------------------- text

Digits == {"0", "1", "2", "3", "4", "5", "6", "7", "8", "9"}
\* the characters \s matches among those of the model
Whitespace == {" ", "\n", "\t"}

DigitVal(c) ==
    CASE c = "0" -> 0 [] c = "1" -> 1 [] c = "2" -> 2 [] c = "3" -> 3
      [] c = "4" -> 4 [] c = "5" -> 5 [] c = "6" -> 6 [] c = "7" -> 7
      [] c = "8" -> 8 [] c = "9" -> 9

\* str.lower() on the characters of the model
LowerChar(c) == IF c = "X" THEN "x" ELSE c
Lower(s) == [i \in 1..Len(s) |-> LowerChar(s[i])]

\* \s* from position i: the first position at or after i that is no whitespace
RECURSIVE SkipWs(_, _)
SkipWs(s, i) ==
    IF i <= Len(s) /\ s[i] \in Whitespace THEN SkipWs(s, i + 1) ELSE i

\* \d* from position i: the first position at or after i that is no digit
RECURSIVE SkipDigits(_, _)
SkipDigits(s, i) ==
    IF i <= Len(s) /\ s[i] \in Digits THEN SkipDigits(s, i + 1) ELSE i

\* \d+(?:\.\d+)? from position i: the position after the match, 0 for no match
ScanNumber(s, i) ==
    LET j == SkipDigits(s, i)
    IN  IF j = i THEN 0
        ELSE IF j <= Len(s) /\ s[j] = "." /\ SkipDigits(s, j + 1) > j + 1
             THEN SkipDigits(s, j + 1)
             ELSE j

\* int() of a run of digits
RECURSIVE IntOf(_)
IntOf(ds) ==
    IF ds = <<>> THEN 0
    ELSE 10 * IntOf(SubSeq(ds, 1, Len(ds) - 1)) + DigitVal(ds[Len(ds)])

RECURSIVE Pow10(_)
Pow10(k) == IF k = 0 THEN 1 ELSE 10 * Pow10(k - 1)

\* float() of the text matched by \d+(?:\.\d+)?, in millionths (at most six
\* decimals, which every text of the model has)
FloatOf(t) ==
    LET j == SkipDigits(t, 1)
        whole == IntOf(SubSeq(t, 1, j - 1))
        frac == SubSeq(t, j + 1, Len(t))
    IN  whole * MICRO + IntOf(frac) * (MICRO \div Pow10(Len(frac)))

\* What parse_trim gives: <<w, h>> in millionths of an inch, or <<>> when it
\* raises ValueError.
\* cover_builder: ^\s*(\d+(?:\.\d+)?)\s*x\s*(\d+(?:\.\d+)?)\s*$ on the lowered text
cover_parse_trim(trim_str) ==
    LET s  == Lower(trim_str)
        a0 == SkipWs(s, 1)
        a1 == ScanNumber(s, a0)
        x  == SkipWs(s, a1)
        b0 == SkipWs(s, x + 1)
        b1 == ScanNumber(s, b0)
    IN  IF /\ a1 # 0
           /\ x <= Len(s) /\ s[x] = "x"
           /\ b1 # 0
           /\ SkipWs(s, b1) = Len(s) + 1
        THEN <<FloatOf(SubSeq(s, a0, a1 - 1)), FloatOf(SubSeq(s, b0, b1 - 1))>>
        ELSE <<>>

\* interior_builder: ^(\d+(?:\.\d+)?)x(\d+(?:\.\d+)?)$ on the text as given;
\* $ also matches before one final newline
interior_parse_trim(trim_str) ==
    LET s  == trim_str
        a1 == ScanNumber(s, 1)
        b1 == ScanNumber(s, a1 + 1)
    IN  IF /\ a1 # 0
           /\ a1 <= Len(s) /\ s[a1] = "x"
           /\ b1 # 0
           /\ \/ b1 = Len(s) + 1
              \/ b1 = Len(s) /\ s[b1] = "\n"
        THEN <<FloatOf(SubSeq(s, 1, a1 - 1)), FloatOf(SubSeq(s, a1 + 1, b1 - 1))>>
        ELSE <<>>

parse_trim(which, trim_str) ==
    IF which = "cover" THEN cover_parse_trim(trim_str) ELSE interior_parse_trim(trim_str)


\* ------------------------------------------------------------- file names

FBNP == <<"f", "b", "n", "p", "_">>
DOT_PNG == <<".", "p", "n", "g">>
DOT_PDF == <<".", "p", "d", "f">>

\* fbnp_<digits>.png
ImageName(ds) == FBNP \o ds \o DOT_PNG

RECURSIVE DigitsOf(_)
DigitsOf(n) ==
    LET d == <<"0", "1", "2", "3", "4", "5", "6", "7", "8", "9">>[(n % 10) + 1]
    IN  IF n < 10 THEN <<d>> ELSE Append(DigitsOf(n \div 10), d)

\* the fixed output names
OUT_PNG == FBNP \o <<"c", "o", "v", "e", "r">> \o DOT_PNG
OUT_PDF == FBNP \o <<"c", "o", "v", "e", "r">> \o DOT_PDF
OUT_INTERIOR == FBNP \o <<"i", "n", "t", "e", "r", "i", "o", "r">> \o DOT_PDF

StartsWith(s, p) == Len(s) >= Len(p) /\ SubSeq(s, 1, Len(p)) = p
EndsWith(s, p) == Len(s) >= Len(p) /\ SubSeq(s, Len(s) - Len(p) + 1, Len(s)) = p

\* images_dir.glob("fbnp_*.png")
Glob(d) == {n \in d : Len(n) >= Len(FBNP) + Len(DOT_PNG) /\ StartsWith(n, FBNP) /\ EndsWith(n, DOT_PNG)}

\* fbnp_(\d+)\.png matched at position i of name n: the position after the
\* match, 0 for none
MatchAt(n, i) ==
    IF i + Len(FBNP) - 1 <= Len(n) /\ SubSeq(n, i, i + Len(FBNP) - 1) = FBNP
    THEN LET a == i + Len(FBNP)
             b == SkipDigits(n, a)
         IN  IF b > a /\ b + Len(DOT_PNG) - 1 <= Len(n)
                /\ SubSeq(n, b, b + Len(DOT_PNG) - 1) = DOT_PNG
             THEN b + Len(DOT_PNG)
             ELSE 0
    ELSE 0

\* re.search(r"fbnp_(\d+)\.png$", name) when anchored, re.search(r"fbnp_(\d+)\.png",
\* name) when not: the positions a match starts at
MatchStarts(n, anchored) ==
    {i \in 1..Len(n) : MatchAt(n, i) # 0 /\ (anchored => MatchAt(n, i) = Len(n) + 1)}

\* whether the search finds a match
Matches(n, anchored) == MatchStarts(n, anchored) # {}

SetMin(S) == CHOOSE m \in S : \A o \in S : m <= o

\* int(m.group(1)) of the leftmost match
IndexOf(n, anchored) ==
    LET i == SetMin(MatchStarts(n, anchored))
        a == i + Len(FBNP)
    IN  IntOf(SubSeq(n, a, SkipDigits(n, a) - 1))

\* the characters of file names in code-point order
CharOrder ==
    <<".", "0", "1", "2", "3", "4", "5", "6", "7", "8", "9", "_",
      "a", "b", "c", "d", "e", "f", "g", "h", "i", "j", "k", "l", "m",
      "n", "o", "p", "q", "r", "s", "t", "u", "v", "w", "x", "y", "z">>

Ord(c) == CHOOSE i \in 1..Len(CharOrder) : CharOrder[i] = c

\* a < b as Python compares the two paths (same directory): by the name's text
RECURSIVE StrLess(_, _)
StrLess(a, b) ==
    IF b = <<>> THEN FALSE
    ELSE IF a = <<>> THEN TRUE
    ELSE IF a[1] # b[1] THEN Ord(a[1]) < Ord(b[1])
    ELSE StrLess(Tail(a), Tail(b))

\* sorted(S): ascending by text
RECURSIVE SortedByName(_)
SortedByName(S) ==
    IF S = {} THEN <<>>
    ELSE LET m == CHOOSE a \in S : \A b \in S \ {a} : StrLess(a, b)
         IN  <<m>> \o SortedByName(S \ {m})

\* list.sort(key=...) of q by the index: stable, so equal indices keep q's order
RECURSIVE StableSortByIndex(_, _)
StableSortByIndex(q, anchored) ==
    IF q = <<>> THEN <<>>
    ELSE LET k == SetMin({IndexOf(q[i], anchored) : i \in 1..Len(q)})
             p == SetMin({i \in 1..Len(q) : IndexOf(q[i], anchored) = k})
             rest == [i \in 1..(Len(q) - 1) |-> IF i < p THEN q[i] ELSE q[i + 1]]
         IN  <<q[p]>> \o StableSortByIndex(rest, anchored)

\* sorted(images_dir.glob(...), key=index): Path.glob yields the files in the
\* directory's own order and the sort is stable, so files of equal index come
\* out in either order: the set of possible results
RECURSIVE SortedListings(_, _)
SortedListings(S, anchored) ==
    IF S = {} THEN {<<>>}
    ELSE LET k == SetMin({IndexOf(f, anchored) : f \in S})
         IN  UNION {{<<f>> \o q : q \in SortedListings(S \ {f}, anchored)} :
                    f \in {g \in S : IndexOf(g, anchored) = k}}

\* ------------------------------------------------------ pseudorandom draws
\* The random module's process-wide generator, as a linear congruential
\* generator: what matters to the builders is that a draw is a function of the
\* generator's state and advances it, and that seed() sets the state.

RngMod == 2^16 + 1
RngStep(s) == (75 * s + 74) % RngMod

\* random.seed(seed)
SeedState(seed) == seed % RngMod

\* a build that never seeds the generator
ReseedNever(seed, s) == s

\* build_cover's "if seed is not None: random.seed(seed)"
Reseed(seed, s) == IF seed # <<>> THEN SeedState(seed[1]) ELSE s

\* a draw below n: [v |-> the value, s |-> the state after]
RandBelow(s, n) == [v |-> RngStep(s) % n, s |-> RngStep(s)]

\* random.randint(a, b)
RandInt(s, a, b) == [v |-> a + RandBelow(s, b - a + 1).v, s |-> RngStep(s)]

\* random.uniform(a, b) = a + (b - a) * random(), in units of 1/RngMod
Uniform(s, a, b) == [v |-> a * RngMod + (b - a) * RngStep(s), s |-> RngStep(s)]

Swap(q, i, j) == [q EXCEPT ![i] = q[j], ![j] = q[i]]

\* random.shuffle(q): for i in reversed(range(1, len(q))): j = randbelow(i + 1);
\* swap q[i] and q[j] (0-based); here i is the 1-based position
RECURSIVE ShuffleFrom(_, _, _)
ShuffleFrom(q, i, s) ==
    IF i < 2 THEN [q |-> q, s |-> s]
    ELSE LET d == RandBelow(s, i)
         IN  ShuffleFrom(Swap(q, i, d.v + 1), i - 1, d.s)

Shuffle(q, s) == ShuffleFrom(q, Len(q), s)

\* -------------------------------------------------------------- geometry

\* whether the binary floating-point value of a length is the length itself
\* (a multiple of 1/64 in): 0.125, 8.5, 11
Dyadic(inches) == (inches * 64) % MICRO = 0

\* whether inches * DPI lies exactly between two integers
IsTie(inches) ==
    LET g == Gcd(MICRO, DPI)
    IN  2 * ((inches * (DPI \div g)) % (MICRO \div g)) = MICRO \div g

\* The values int(round(inches * DPI)) can take.  The product is rounded in
\* binary floating point: it can differ from the exact product only in its last
\* bit, which changes the result only at an exact tie of a length that is not
\* a binary fraction; there the last bit decides, and either neighbour results.
PxOutcomes(inches) ==
    IF IsTie(inches) /\ ~Dyadic(inches)
    THEN {inches_to_px(inches - 1), inches_to_px(inches + 1)}
    ELSE {inches_to_px(inches)}

Size(w, h) == [w |-> w, h |-> h]

\* compute_dimensions: the (total, trim_px, spine_px) it can return
compute_dimensions(trim_w_in, trim_h_in, pages, paper) ==
    LET spine_in == PAPER_THICKNESS[paper] * pages
    IN  {[total |-> Size(tw, th), trim_px |-> Size(pw, ph), spine_px |-> sp] :
            tw \in PxOutcomes(BLEED_IN * 2 + trim_w_in * 2 + spine_in),
            th \in PxOutcomes(BLEED_IN * 2 + trim_h_in),
            pw \in PxOutcomes(trim_w_in),
            ph \in PxOutcomes(trim_h_in),
            sp \in PxOutcomes(spine_in)}

NoDims == [total |-> Size(0, 0), trim_px |-> Size(0, 0), spine_px |-> 0]

\* build_cover's panels for the dimensions d
Panels(d) ==
    LET bleed_px == inches_to_px(BLEED_IN)
        left_x0 == 0 + bleed_px
        left_x1 == left_x0 + d.trim_px.w
        spine_x0 == left_x1
        spine_x1 == spine_x0 + d.spine_px
        right_x0 == spine_x1
        right_x1 == right_x0 + d.trim_px.w
    IN  [bleed_px |-> bleed_px, left_x0 |-> left_x0, left_x1 |-> left_x1,
         spine_x0 |-> spine_x0, spine_x1 |-> spine_x1,
         right_x0 |-> right_x0, right_x1 |-> right_x1]

\* random_boxes(panel_x0, panel_x1) with rows = 2, cols = 3: the boxes before
\* the shuffle, from cell idx (row-major) on, threading the generator
RECURSIVE BoxesFrom(_, _, _, _, _, _)
BoxesFrom(idx, panel_x0, cell_w, cell_h, bleed_px, s) ==
    IF idx = 6 THEN [q |-> <<>>, s |-> s]
    ELSE LET r == idx \div 3
             c == idx % 3
             dx == RandInt(s, (-cell_w) \div 10, cell_w \div 10)
             dy == RandInt(dx.s, (-cell_h) \div 10, cell_h \div 10)
             x0 == panel_x0 + c * cell_w + dx.v
             y0 == bleed_px + r * cell_h + dy.v
             w == (cell_w * 8) \div 10
             h == (cell_h * 8) \div 10
             rest == BoxesFrom(idx + 1, panel_x0, cell_w, cell_h, bleed_px, dy.s)
         IN  [q |-> <<(<<x0, y0, x0 + w, y0 + h>>)>> \o rest.q, s |-> rest.s]

random_boxes(panel_x0, panel_x1, total_h, bleed_px, s) ==
    LET cell_w == (panel_x1 - panel_x0) \div 3
        cell_h == total_h \div 2
        made == BoxesFrom(0, panel_x0, cell_w, cell_h, bleed_px, s)
    IN  Shuffle(made.q, made.s)

\* place_tilted_sheet: whether the sheet is composited onto the base (it returns
\* early when the box leaves no room for the art)
SheetComposited(box) ==
    LET w == box[3] - box[1]
        h == box[4] - box[2]
        pad == Max(8, Min(w, h) \div 20)
    IN  w - 2 * (12 + pad) > 0 /\ h - 2 * (12 + pad) > 0

\* the rendered width of a text whose advance is ems tenths of an em, at a
\* font size
TextWidth(ems, size) == (ems * size) \div 10

\* the title size loop: from size on, 4 less while the title is too wide
RECURSIVE TitleSizeFrom(_, _, _)
TitleSizeFrom(size, ems, max_title_w) ==
    IF size > 24
    THEN IF TextWidth(ems, size) <= max_title_w THEN size
         ELSE TitleSizeFrom(size - 4, ems, max_title_w)
    ELSE size

\* the barcode rectangle <<x0, y0, x1, y1>> build_cover draws
BarcodeRect(d) ==
    LET P == Panels(d)
        barcode_w == inches_to_px(BARCODE_W_IN)
        barcode_h == inches_to_px(BARCODE_H_IN)
        x_a == P.left_x1 - barcode_w - inches_to_px(250000)
        y_a == d.total.h - P.bleed_px - barcode_h - inches_to_px(BARCODE_BOTTOM_OFFSET_IN)
        barcode_x == Max(P.left_x0 + inches_to_px(250000), x_a)
        barcode_y == Min(d.total.h - P.bleed_px - barcode_h - inches_to_px(100000), y_a)
    IN  <<barcode_x, barcode_y, barcode_x + barcode_w, barcode_y + barcode_h>>

\* ---------------------------------------------------- interior discovery

\* load_interior_images, up to the empty check: the discovered files in order
CoverDiscovered(d) ==
    LET KeepNumeric(n) == Matches(n, TRUE)
    IN  StableSortByIndex(SelectSeq(SortedByName(Glob(d)), KeepNumeric), TRUE)

\* q[:n]
Take(q, n) == SubSeq(q, 1, Min(n, Len(q)))

\* how many of the discovered files load_interior_images asks for
SelectCount(max_images, n_files) == Max(2, Min(max_images, n_files))

\* load_interior_images after the empty check: the files it returns and the
\* generator after the shuffle
load_interior_images(files, max_images, s) ==
    LET k == SelectCount(max_images, Len(files))
        head == Shuffle(Take(files, 6), s)
    IN  [q |-> Take(head.q, k), s |-> head.s]

\* main's clamp of --max-images
ClampMaxImages(m) == IF m < 2 THEN 2 ELSE IF m > 5 THEN 5 ELSE m

\* ------------------------------------------------------------ background

HexChars == Digits \cup {"a", "b", "c", "d", "e", "f", "A", "B", "C", "D", "E", "F"}

GRADIENT_PASTEL ==
    <<"g", "r", "a", "d", "i", "e", "n", "t", ":", "p", "a", "s", "t", "e", "l">>
SEP_PASTEL == <<":", "p", "a", "s", "t", "e", "l", ":">>

WHITE == <<"#", "F", "F", "F", "F", "F", "F">>
SOFT_TEAL == <<"#", "E", "0", "F", "2", "F", "E">>

PASTEL_PALETTES ==
    << << <<"#", "F", "D", "F", "2", "F", "8">>, <<"#", "D", "B", "E", "A", "F", "E">> >>,
       << <<"#", "F", "D", "E", "6", "8", "A">>, <<"#", "A", "7", "F", "3", "D", "0">> >>,
       << <<"#", "E", "9", "D", "5", "F", "F">>, <<"#", "B", "F", "D", "B", "F", "E">> >>,
       << <<"#", "F", "F", "E", "4", "E", "6">>, <<"#", "F", "E", "F", "9", "C", "3">> >>,
       << <<"#", "E", "0", "F", "2", "F", "E">>, <<"#", "D", "C", "F", "C", "E", "7">> >> >>

\* bg.partition(":pastel:")[2]: the text after the first ":pastel:", empty when
\* there is none
AfterPastel(bg) ==
    LET hits == {i \in 1..Len(bg) :
                    i + Len(SEP_PASTEL) - 1 <= Len(bg)
                    /\ SubSeq(bg, i, i + Len(SEP_PASTEL) - 1) = SEP_PASTEL}
    IN  IF hits = {} THEN <<>>
        ELSE SubSeq(bg, SetMin(hits) + Len(SEP_PASTEL), Len(bg))

\* the backward \s* : the last position at or before i that is no whitespace
RECURSIVE SkipWsBack(_, _)
SkipWsBack(s, i) ==
    IF i >= 1 /\ s[i] \in Whitespace THEN SkipWsBack(s, i - 1) ELSE i

\* int(text): <<value>>, or <<>> when it raises (surrounding whitespace and one
\* sign are accepted)
PyInt(text) ==
    LET a == SkipWs(text, 1)
        b == SkipWsBack(text, Len(text))
        signed == a <= b /\ text[a] \in {"+", "-"}
        d0 == IF signed THEN a + 1 ELSE a
    IN  IF d0 <= b /\ SkipDigits(text, d0) = b + 1
        THEN IF signed /\ text[a] = "-"
             THEN <<0 - IntOf(SubSeq(text, d0, b))>>
             ELSE <<IntOf(SubSeq(text, d0, b))>>
        ELSE <<>>

\* the palette index build_cover picks for a gradient spec (0-based)
GradientIndex(bg) ==
    LET v == PyInt(AfterPastel(bg))
    IN  IF v = <<>> THEN 0 ELSE Max(0, Min(Len(PASTEL_PALETTES) - 1, v[1]))

\* re.match(r"^#?[0-9a-fA-F]{6}$", bg); $ also matches before one final newline
IsHexColor(bg) ==
    LET a == IF bg # <<>> /\ bg[1] = "#" THEN 2 ELSE 1
    IN  /\ Len(bg) >= a + 5
        /\ \A i \in a..(a + 5) : bg[i] \in HexChars
        /\ \/ Len(bg) = a + 5
           \/ Len(bg) = a + 6 /\ bg[a + 6] = "\n"

\* a uniform fill of one colour
Solid(c) == [top |-> c, bottom |-> c]

\* The background step: what the base canvas shows after it, what the temporary
\* image handed to draw_gradient shows (draw_gradient paints the image it is
\* given, and build_cover gives it base.convert("RGB"), a new image), and
\* whether the step raises (a colour text the imaging library does not know).
Background(bg) ==
    IF StartsWith(bg, GRADIENT_PASTEL)
    THEN LET pal == PASTEL_PALETTES[GradientIndex(bg) + 1]
         IN  [base |-> Solid(WHITE), tmp |-> <<[top |-> pal[1], bottom |-> pal[2]]>>, ok |-> TRUE]
    ELSE IF IsHexColor(bg)
    THEN LET color == IF bg[1] = "#" THEN bg ELSE <<"#">> \o bg
         IN  IF color[Len(color)] = "\n"
             THEN [base |-> Solid(WHITE), tmp |-> <<>>, ok |-> FALSE]
             ELSE [base |-> Solid(color), tmp |-> <<>>, ok |-> TRUE]
    ELSE [base |-> Solid(SOFT_TEAL), tmp |-> <<>>, ok |-> TRUE]

\* ------------------------------------------------------------------ inputs

\* how many builds one behaviour runs on the title directory
MaxBuilds == 2
\* the longest trim text parse_trim is tried on
MaxTrimLen == 5
\* the largest page count the dimensions are computed for
MaxPages == 120

TRIM_LETTER == <<"8", ".", "5", "x", "1", "1">>
TRIM_UPPER == <<"8", ".", "5", "X", "1", "1">>
TRIM_SPACED == <<"6", " ", "x", " ", "9">>
TRIM_DIGEST == <<"5", ".", "5", "x", "8", ".", "5">>
TRIM_SMALL == <<"2", "x", "3">>
TRIM_NO_HEIGHT == <<"8", ".", "5">>
TrimTexts == {TRIM_LETTER, TRIM_UPPER, TRIM_SPACED, TRIM_DIGEST, TRIM_SMALL, TRIM_NO_HEIGHT}

\* the characters trim texts are made of when parse_trim is tried on every text
TrimChars == {"1", ".", "x", "X", " ", "\n"}
AllTrimTexts == UNION {[1..n -> TrimChars] : n \in 0..MaxTrimLen}

BG_DEFAULT == GRADIENT_PASTEL \o <<":", "1">>
BG_HIGH == GRADIENT_PASTEL \o <<":", "9">>
BG_WORD == GRADIENT_PASTEL \o <<":", "x">>
BG_HEX == <<"#", "F", "D", "E", "6", "8", "A">>
BG_BARE_HEX == <<"a", "7", "f", "3", "d", "0">>
BG_NAME == <<"t", "e", "a", "l">>
BgTexts == {BG_DEFAULT, BG_HIGH, BG_WORD, BG_HEX, BG_BARE_HEX, BG_NAME}

\* the states the generator may be in when a process starts (seeded by the
\* system)
RngStates == {0, 1, 40503}

SPINE_TEXT == "Cute Dinosaurs"

\* the cover build's arguments: --pages, --paper, --trim, --max-images,
\* --spine-title, --bg, --seed, and the title's advance (tenths of an em)
BaseArgs ==
    [pages |-> 30, paper |-> "white", trim |-> TRIM_LETTER, max_images |-> 4,
     spine_title |-> <<>>, bg |-> BG_DEFAULT, seed |-> <<42>>, title_ems |-> 180]

CoverArgs ==
    {[BaseArgs EXCEPT !.pages = p, !.spine_title = t] :
        p \in {0, 30, 78, 79, 100}, t \in {<<>>, <<"">>, <<SPINE_TEXT>>}}
    \cup {[BaseArgs EXCEPT !.trim = t, !.paper = q] : t \in TrimTexts, q \in {"white", "cream"}}
    \cup {[BaseArgs EXCEPT !.max_images = m] : m \in {1, 2, 4, 5, 9}}
    \cup {[BaseArgs EXCEPT !.bg = b] : b \in BgTexts}
    \cup {[BaseArgs EXCEPT !.seed = sd] : sd \in {<<>>, <<7>>}}
    \cup {[BaseArgs EXCEPT !.title_ems = e, !.trim = t] :
            e \in {60, 400, 1500}, t \in {TRIM_LETTER, TRIM_SMALL}}

\* the arguments the dimensions are computed for
DimArgs ==
    {[BaseArgs EXCEPT !.pages = p, !.paper = q, !.trim = t] :
        p \in 0..MaxPages, q \in Papers, t \in TrimTexts}

\* the arguments reproducibility is checked on
ReproArgs ==
    {[BaseArgs EXCEPT !.seed = sd, !.max_images = m] : sd \in {<<>>, <<7>>, <<42>>}, m \in {2, 5}}

\* the interior build's arguments: --trim
InteriorArgs == {[trim |-> t] : t \in {TRIM_LETTER, TRIM_UPPER, TRIM_NO_HEIGHT}}

\* fbnp_1.png .. fbnp_n.png
Images(n) == {ImageName(DigitsOf(i)) : i \in 1..n}

\* the title directories a behaviour starts on
InitialDirs ==
    {Images(n) : n \in {0, 1, 2, 3, 7, 10}}
    \cup {{ImageName(<<"2">>), ImageName(<<"1", "0">>)}}
    \cup {{ImageName(<<"1">>), ImageName(<<"0", "1">>), ImageName(<<"2">>)}}
    \cup {Images(3) \cup {OUT_PNG, OUT_PDF}}

ReproDirs == {Images(3), Images(7), Images(7) \cup {OUT_PNG, OUT_PDF}}

\* ------------------------------------------------------------------- state

VARIABLES
    dir,             \* the names of the files in the title directory
    interior_doc,    \* the pages of fbnp_interior.pdf, <<>> while there is none
    builds,          \* how many builds have been started
    tool,            \* the entry point running: "none", "cover", "interior"
    pc,              \* where the run is
    args,            \* the argparse namespace
    rng,             \* the state of the random module's generator
    trim,            \* parse_trim's result
    dims,            \* compute_dimensions's result
    base_bg,         \* the background of the base canvas
    tmp_bg,          \* the background painted on draw_gradient's image, if any
    interior_files,  \* the files load_interior_images returned
    front_boxes,     \* the boxes left for the front panel
    back_boxes,      \* the boxes left for the back panel
    sheets,          \* the sheets placed: file, box, angle, composited
    ops,             \* the rendering steps performed on the canvas, in order
    title_size,      \* the size the title is rendered at
    barcode,         \* the barcode rectangle, <<>> before it is drawn
    pdf_by,          \* what wrote the cover document: "none", "magick", "pillow"
    pages,           \* the interior build's page list
    err,             \* the exception that ended the run, "" for none
    seen_dir,        \* the directory as the build found it at discovery
    magick,          \* what the converter came to: "unknown" before it is tried
    prev             \* the layout of the build before, when it is recorded

persistent == <<dir, interior_doc, builds>>
locals == <<tool, pc, args, rng, trim, dims, base_bg, tmp_bg, interior_files,
            front_boxes, back_boxes, sheets, ops, title_size, barcode, pdf_by,
            pages, err, seen_dir, magick>>
vars == <<dir, interior_doc, builds, tool, pc, args, rng, trim, dims, base_bg,
          tmp_bg, interior_files, front_boxes, back_boxes, sheets, ops,
          title_size, barcode, pdf_by, pages, err, seen_dir, magick, prev>>

NoArgs == [trim |-> <<>>]

\* no process running
Idle ==
    /\ tool = "none" /\ pc = "idle" /\ args = NoArgs /\ rng = 0 /\ trim = <<>>
    /\ dims = NoDims /\ base_bg = Solid(WHITE) /\ tmp_bg = <<>>
    /\ interior_files = <<>> /\ front_boxes = <<>> /\ back_boxes = <<>>
    /\ sheets = <<>> /\ ops = <<>> /\ title_size = 0 /\ barcode = <<>>
    /\ pdf_by = "none" /\ pages = <<>> /\ err = "" /\ seen_dir = {}
    /\ magick = "unknown"

\* a process started on arguments a with the generator in state s
Started(which, a, s) ==
    /\ tool = which /\ pc = "main" /\ args = a /\ rng = s /\ trim = <<>>
    /\ dims = NoDims /\ base_bg = Solid(WHITE) /\ tmp_bg = <<>>
    /\ interior_files = <<>> /\ front_boxes = <<>> /\ back_boxes = <<>>
    /\ sheets = <<>> /\ ops = <<>> /\ title_size = 0 /\ barcode = <<>>
    /\ pdf_by = "none" /\ pages = <<>> /\ err = "" /\ seen_dir = {}
    /\ magick = "unknown"

Init ==
    /\ dir \in InitialDirs
    /\ interior_doc = <<>>
    /\ builds = 0
    /\ prev = <<>>
    /\ Idle

\* the run ends with exception e
Raise(e) == pc' = "failed" /\ err' = e

\* --------------------------------------------------------- the cover build

\* a cover_builder.py process starts: argparse reads the arguments
StartCoverWith(A) ==
    /\ pc = "idle" /\ builds < MaxBuilds
    /\ \E a \in A, s \in RngStates :
          /\ tool' = "cover" /\ pc' = "main" /\ args' = a /\ rng' = s
    /\ builds' = builds + 1
    /\ UNCHANGED <<dir, interior_doc, trim, dims, base_bg, tmp_bg, interior_files,
                   front_boxes, back_boxes, sheets, ops, title_size, barcode,
                   pdf_by, pages, err, seen_dir, magick, prev>>

StartCover == StartCoverWith(CoverArgs)

\* main: the clamp of --max-images, then parse_trim
CoverMain ==
    /\ tool = "cover" /\ pc = "main"
    /\ args' = [args EXCEPT !.max_images = ClampMaxImages(args.max_images)]
    /\ LET t == parse_trim("cover", args.trim)
       IN  IF t = <<>>
           THEN Raise("ValueError") /\ UNCHANGED trim
           ELSE trim' = t /\ pc' = "setup" /\ UNCHANGED err
    /\ UNCHANGED <<dir, interior_doc, builds, tool, rng, dims, base_bg, tmp_bg,
                   interior_files, front_boxes, back_boxes, sheets, ops,
                   title_size, barcode, pdf_by, pages, seen_dir, magick, prev>>

\* build_cover: the seeding of the generator, compute_dimensions, the white
\* base canvas
BuildSetup ==
    /\ tool = "cover" /\ pc = "setup"
    /\ rng' = Reseed(args.seed, rng)
    /\ dims' \in compute_dimensions(trim[1], trim[2], args.pages, args.paper)
    /\ base_bg' = Solid(WHITE)
    /\ pc' = "background"
    /\ UNCHANGED <<dir, interior_doc, builds, tool, args, trim, tmp_bg,
                   interior_files, front_boxes, back_boxes, sheets, ops,
                   title_size, barcode, pdf_by, pages, err, seen_dir, magick, prev>>

\* build_cover: the background
BackgroundStep ==
    /\ tool = "cover" /\ pc = "background"
    /\ LET b == Background(args.bg)
       IN  IF b.ok
           THEN /\ base_bg' = b.base /\ tmp_bg' = b.tmp
                /\ ops' = Append(ops, "background")
                /\ pc' = "load" /\ UNCHANGED err
           ELSE Raise("ValueError") /\ UNCHANGED <<base_bg, tmp_bg, ops>>
    /\ UNCHANGED <<dir, interior_doc, builds, tool, args, rng, trim, dims,
                   interior_files, front_boxes, back_boxes, sheets, title_size,
                   barcode, pdf_by, pages, seen_dir, magick, prev>>

\* build_cover: load_interior_images
LoadInterior ==
    /\ tool = "cover" /\ pc = "load"
    /\ seen_dir' = dir
    /\ LET files == CoverDiscovered(dir)
           sel == load_interior_images(files, args.max_images, rng)
       IN  IF files = <<>>
           THEN Raise("FileNotFoundError: images") /\ UNCHANGED <<interior_files, rng>>
           ELSE /\ interior_files' = sel.q /\ rng' = sel.s
                /\ pc' = "boxes" /\ UNCHANGED err
    /\ UNCHANGED <<dir, interior_doc, builds, tool, args, trim, dims, base_bg,
                   tmp_bg, front_boxes, back_boxes, sheets, ops, title_size,
                   barcode, pdf_by, pages, prev, magick>>

\* build_cover: front_boxes, then back_boxes
LayoutBoxes ==
    /\ tool = "cover" /\ pc = "boxes"
    /\ LET P == Panels(dims)
           front == random_boxes(P.right_x0, P.right_x1, dims.total.h, P.bleed_px, rng)
           back == random_boxes(P.left_x0, P.left_x1, dims.total.h, P.bleed_px, front.s)
       IN  front_boxes' = front.q /\ back_boxes' = back.q /\ rng' = back.s
    /\ pc' = "sheets"
    /\ UNCHANGED <<dir, interior_doc, builds, tool, args, trim, dims, base_bg,
                   tmp_bg, interior_files, sheets, ops, title_size, barcode,
                   pdf_by, pages, err, seen_dir, magick, prev>>

\* What one pass of the sheet loop does, given whether the imaging library has
\* the putchannel method the pass calls on the art.
SheetPass(has_putchannel) ==
    LET i == Len(sheets)
        angle == Uniform(rng, -15, 15)
        from_front == (i % 2 = 0) \/ back_boxes = <<>>
        target == IF from_front THEN front_boxes ELSE back_boxes
        box == target[Len(target)]
        popped == SubSeq(target, 1, Len(target) - 1)
    IN  /\ rng' = angle.s
        /\ IF target = <<>>
           THEN Raise("IndexError") /\ UNCHANGED <<front_boxes, back_boxes, sheets, ops>>
           ELSE /\ front_boxes' = IF from_front THEN popped ELSE front_boxes
                /\ back_boxes' = IF from_front THEN back_boxes ELSE popped
                /\ IF has_putchannel
                   THEN /\ sheets' = Append(sheets,
                                [file |-> interior_files[i + 1], box |-> box,
                                 angle |-> angle.v, composited |-> SheetComposited(box)])
                        /\ ops' = IF SheetComposited(box) THEN Append(ops, "sheet") ELSE ops
                        /\ UNCHANGED <<pc, err>>
                   ELSE Raise("AttributeError") /\ UNCHANGED <<sheets, ops>>

\* build_cover: one pass of the loop over the interior images.  Image has no
\* putchannel method in the imaging library's documented interface, so whether
\* the first pass raises AttributeError is the installed library's to decide;
\* a library that has the method has it in every pass.
PlaceSheet ==
    /\ tool = "cover" /\ pc = "sheets" /\ Len(sheets) < Len(interior_files)
    /\ \E has_putchannel \in (IF sheets = <<>> THEN BOOLEAN ELSE {TRUE}) :
          SheetPass(has_putchannel)
    /\ UNCHANGED <<dir, interior_doc, builds, tool, args, trim, dims, base_bg,
                   tmp_bg, interior_files, title_size, barcode, pdf_by, pages,
                   seen_dir, prev, magick>>

\* build_cover: pick_first_existing_font(DEFAULT_TITLE_FONTS) after the loop;
\* whether one of the candidate files exists is the file system's to decide
FontCheck ==
    /\ tool = "cover" /\ pc = "sheets" /\ Len(sheets) = Len(interior_files)
    /\ \E title_font_found \in BOOLEAN :
          IF title_font_found
          THEN pc' = "title" /\ UNCHANGED err
          ELSE Raise("FileNotFoundError: font")
    /\ UNCHANGED <<dir, interior_doc, builds, tool, args, rng, trim, dims, base_bg,
                   tmp_bg, interior_files, front_boxes, back_boxes, sheets, ops,
                   title_size, barcode, pdf_by, pages, seen_dir, magick, prev>>

\* build_cover: the title, sized to the front panel
TitleStep ==
    /\ tool = "cover" /\ pc = "title"
    /\ LET P == Panels(dims)
           max_title_w == ((P.right_x1 - P.right_x0) * 8) \div 10
       IN  title_size' = TitleSizeFrom(150, args.title_ems, max_title_w)
    /\ ops' = Append(ops, "title")
    /\ pc' = "spine"
    /\ UNCHANGED <<dir, interior_doc, builds, tool, args, rng, trim, dims, base_bg,
                   tmp_bg, interior_files, front_boxes, back_boxes, sheets,
                   barcode, pdf_by, pages, err, seen_dir, magick, prev>>

\* the condition without the page-count threshold
SpineTextNoThreshold(spine_title, n_pages, spine_px) ==
    /\ spine_title # <<>> /\ spine_title[1] # ""
    /\ spine_px > 0

\* "if spine_title and pages >= 79 and spine_px > 0"
SpineTextWanted(spine_title, n_pages, spine_px) ==
    /\ spine_title # <<>> /\ spine_title[1] # ""
    /\ n_pages >= 79
    /\ spine_px > 0

\* build_cover: the optional spine text
SpineStep ==
    /\ tool = "cover" /\ pc = "spine"
    /\ ops' = IF SpineTextWanted(args.spine_title, args.pages, dims.spine_px)
              THEN Append(ops, "spine") ELSE ops
    /\ pc' = "description"
    /\ UNCHANGED <<dir, interior_doc, builds, tool, args, rng, trim, dims, base_bg,
                   tmp_bg, interior_files, front_boxes, back_boxes, sheets,
                   title_size, barcode, pdf_by, pages, err, seen_dir, magick, prev>>

\* build_cover: the back-cover description on its card
DescriptionStep ==
    /\ tool = "cover" /\ pc = "description"
    /\ ops' = ops \o <<"card", "description">>
    /\ pc' = "barcode"
    /\ UNCHANGED <<dir, interior_doc, builds, tool, args, rng, trim, dims, base_bg,
                   tmp_bg, interior_files, front_boxes, back_boxes, sheets,
                   title_size, barcode, pdf_by, pages, err, seen_dir, magick, prev>>

\* build_cover: the reserved barcode rectangle
BarcodeStep ==
    /\ tool = "cover" /\ pc = "barcode"
    /\ barcode' = BarcodeRect(dims)
    /\ ops' = Append(ops, "barcode")
    /\ pc' = "save"
    /\ UNCHANGED <<dir, interior_doc, builds, tool, args, rng, trim, dims, base_bg,
                   tmp_bg, interior_files, front_boxes, back_boxes, sheets,
                   title_size, pdf_by, pages, err, seen_dir, magick, prev>>

\* build_cover: the raster is written
SavePng ==
    /\ tool = "cover" /\ pc = "save"
    /\ dir' = dir \cup {OUT_PNG}
    /\ pc' = "pdf"
    /\ UNCHANGED <<interior_doc, builds, tool, args, rng, trim, dims, base_bg,
                   tmp_bg, interior_files, front_boxes, back_boxes, sheets, ops,
                   title_size, barcode, pdf_by, pages, err, seen_dir, magick, prev>>

\* a build in which the converter's failure is not caught
PdfWriterNoFallback(outcome) ==
    IF outcome = "absent" THEN "pillow" ELSE IF outcome = "zero" THEN "magick" ELSE "none"

\* What writes the cover document, given what shutil.which("magick") and the
\* converter's run came to: "absent", "zero" (exit status 0), "nonzero".
PdfWriter(outcome) == IF outcome = "zero" THEN "magick" ELSE "pillow"

\* build_cover: the document is written, by the converter or by the library
ExportPdf ==
    /\ tool = "cover" /\ pc = "pdf"
    /\ \E outcome \in {"absent", "zero", "nonzero"} :
          /\ magick' = outcome
          /\ pdf_by' = PdfWriter(outcome)
          /\ IF PdfWriter(outcome) = "none"
             THEN Raise("CalledProcessError") /\ UNCHANGED dir
             ELSE dir' = dir \cup {OUT_PDF} /\ pc' = "done" /\ UNCHANGED err
    /\ UNCHANGED <<interior_doc, builds, tool, args, rng, trim, dims, base_bg,
                   tmp_bg, interior_files, front_boxes, back_boxes, sheets, ops,
                   title_size, barcode, pages, seen_dir, prev>>

\* ------------------------------------------------------ the interior build

\* an interior_builder.py process starts: argparse reads the arguments
StartInteriorWith(A) ==
    /\ pc = "idle" /\ builds < MaxBuilds
    /\ \E a \in A : tool' = "interior" /\ pc' = "main" /\ args' = a
    /\ builds' = builds + 1
    /\ UNCHANGED <<dir, interior_doc, rng, trim, dims, base_bg, tmp_bg,
                   interior_files, front_boxes, back_boxes, sheets, ops,
                   title_size, barcode, pdf_by, pages, err, seen_dir, magick, prev>>

StartInterior == StartInteriorWith(InteriorArgs)

\* main: parse_trim
InteriorMain ==
    /\ tool = "interior" /\ pc = "main"
    /\ LET t == parse_trim("interior", args.trim)
       IN  IF t = <<>>
           THEN Raise("ValueError") /\ UNCHANGED trim
           ELSE trim' = t /\ pc' = "front_matter" /\ UNCHANGED err
    /\ UNCHANGED <<dir, interior_doc, builds, tool, args, rng, dims, base_bg,
                   tmp_bg, interior_files, front_boxes, back_boxes, sheets, ops,
                   title_size, barcode, pdf_by, pages, seen_dir, magick, prev>>

FrontPage(kind) == [kind |-> kind, file |-> <<>>]
ColoringPage(f) == [kind |-> "coloring", file |-> f]

\* add_front_matter: the font (pick_first_existing_font raises when no
\* candidate exists), then the belongs-to page and the copyright page
FrontMatter ==
    /\ tool = "interior" /\ pc = "front_matter"
    /\ \E font_found \in BOOLEAN :
          IF font_found
          THEN /\ pages' = pages \o <<FrontPage("belongs_to"), FrontPage("copyright")>>
               /\ pc' = "coloring" /\ UNCHANGED err
          ELSE Raise("FileNotFoundError: font") /\ UNCHANGED pages
    /\ UNCHANGED <<dir, interior_doc, builds, tool, args, rng, trim, dims, base_bg,
                   tmp_bg, interior_files, front_boxes, back_boxes, sheets, ops,
                   title_size, barcode, pdf_by, seen_dir, magick, prev>>

\* add_coloring_pages: the results of its sorted(glob, key=index), or <<>> when
\* the key raises AttributeError (re.search gives None for a globbed name)
InteriorDiscovered(d) ==
    IF \E n \in Glob(d) : ~Matches(n, FALSE)
    THEN {}
    ELSE SortedListings(Glob(d), FALSE)

\* add_coloring_pages: discovery, then one page per file
ColoringPages ==
    /\ tool = "interior" /\ pc = "coloring"
    /\ seen_dir' = dir
    /\ IF InteriorDiscovered(dir) = {}
       THEN Raise("AttributeError") /\ UNCHANGED pages
       ELSE \E files \in InteriorDiscovered(dir) :
               IF files = <<>>
               THEN Raise("FileNotFoundError: images") /\ UNCHANGED pages
               ELSE /\ pages' = pages \o [i \in 1..Len(files) |-> ColoringPage(files[i])]
                    /\ pc' = "save" /\ UNCHANGED err
    /\ UNCHANGED <<dir, interior_doc, builds, tool, args, rng, trim, dims, base_bg,
                   tmp_bg, interior_files, front_boxes, back_boxes, sheets, ops,
                   title_size, barcode, pdf_by, magick, prev>>

\* build_interior: all pages are saved as one document
SaveInterior ==
    /\ tool = "interior" /\ pc = "save"
    /\ dir' = dir \cup {OUT_INTERIOR}
    /\ interior_doc' = pages
    /\ pc' = "done"
    /\ UNCHANGED <<builds, tool, args, rng, trim, dims, base_bg, tmp_bg,
                   interior_files, front_boxes, back_boxes, sheets, ops,
                   title_size, barcode, pdf_by, pages, err, seen_dir, magick, prev>>

\* ---------------------------------------------------------- process exit

\* the layout a cover build made, once it has placed every sheet
LayoutMade ==
    IF tool = "cover" /\ interior_files # <<>> /\ Len(sheets) = Len(interior_files)
    THEN <<[args |-> args, dir |-> seen_dir, files |-> interior_files,
            sheets |-> sheets, rng |-> rng]>>
    ELSE <<>>

\* the process ends (status 0 after "done", a traceback after "failed"); what
\* it held in memory is gone
ExitProcess(record) ==
    /\ pc \in {"done", "failed"}
    /\ prev' = IF record THEN LayoutMade ELSE prev
    /\ tool' = "none" /\ pc' = "idle" /\ args' = NoArgs /\ rng' = 0 /\ trim' = <<>>
    /\ dims' = NoDims /\ base_bg' = Solid(WHITE) /\ tmp_bg' = <<>>
    /\ interior_files' = <<>> /\ front_boxes' = <<>> /\ back_boxes' = <<>>
    /\ sheets' = <<>> /\ ops' = <<>> /\ title_size' = 0 /\ barcode' = <<>>
    /\ pdf_by' = "none" /\ pages' = <<>> /\ err' = "" /\ seen_dir' = {}
    /\ magick' = "unknown"
    /\ UNCHANGED <<dir, interior_doc, builds>>

Exit == ExitProcess(FALSE)

\* the exit, with the layout kept for comparison with the next build's
ExitRecorded == ExitProcess(TRUE)

\* ---------------------------------------------------------- specifications

CoverSteps ==
    \/ CoverMain \/ BuildSetup \/ BackgroundStep \/ LoadInterior \/ LayoutBoxes
    \/ PlaceSheet \/ FontCheck \/ TitleStep \/ SpineStep \/ DescriptionStep
    \/ BarcodeStep \/ SavePng \/ ExportPdf

InteriorSteps ==
    \/ InteriorMain \/ FrontMatter \/ ColoringPages \/ SaveInterior

\* Builds, one process after the other, on one title directory.
Next == StartCover \/ StartInterior \/ CoverSteps \/ InteriorSteps \/ Exit

Spec == Init /\ [][Next]_vars

\* compute_dimensions on every page count up to MaxPages: a cover build as far
\* as its dimensions.
InitDim ==
    /\ dir = {} /\ interior_doc = <<>> /\ builds = 1 /\ prev = <<>>
    /\ \E a \in DimArgs : Started("cover", a, 0)

NextDim == CoverMain \/ BuildSetup

SpecDim == InitDim /\ [][NextDim]_vars

\* parse_trim of either entry point on every text up to MaxTrimLen.
InitTrim ==
    /\ dir = {} /\ interior_doc = <<>> /\ builds = 1 /\ prev = <<>>
    /\ \E t \in AllTrimTexts :
          \/ Started("cover", [BaseArgs EXCEPT !.trim = t], 0)
          \/ Started("interior", [trim |-> t], 0)

NextTrim == CoverMain \/ InteriorMain

SpecTrim == InitTrim /\ [][NextTrim]_vars

\* Successive cover builds, each build's layout kept for the next to compare.
InitRepro ==
    /\ dir \in ReproDirs /\ interior_doc = <<>> /\ builds = 0 /\ prev = <<>>
    /\ Idle

StartRepro == StartCoverWith(ReproArgs)

NextRepro == StartRepro \/ CoverSteps \/ ExitRecorded

SpecRepro == InitRepro /\ [][NextRepro]_vars
\* ------------------------------------------------------------------ claims

Range(q) == {q[i] : i \in 1..Len(q)}

\* the cover build has its dimensions
HasDims == tool = "cover" /\ pc \notin {"idle", "main", "setup", "failed"}

\* C1: the canvas is as wide as its parts: total width = 2 * bleed_px +
\* 2 * trim_width_px + spine_px, so that the front panel's right edge plus one
\* bleed is the canvas's right edge.
C1_WidthIsSumOfPanels ==
    HasDims =>
        /\ dims.total.w = 2 * inches_to_px(BLEED_IN) + 2 * dims.trim_px.w + dims.spine_px
        /\ Panels(dims).right_x1 + Panels(dims).bleed_px = dims.total.w

\* whether px is a nearest integer to inches * DPI (within half a pixel)
NearestPx(inches, px) ==
    LET g == Gcd(MICRO, DPI)
        n == inches * (DPI \div g) - px * (MICRO \div g)
    IN  2 * n <= MICRO \div g /\ 2 * (0 - n) <= MICRO \div g

\* C2: the dimensions are the stated formulas' at 300 pixels per inch, each
\* rounded to a nearest integer: spine_px of thickness * pages, the total width
\* of 2 * 0.125 + 2 * trim_w + thickness * pages, the total height of
\* 2 * 0.125 + trim_h; 30 white pages give spine_px = 20, and with an 8.5x11
\* trim a canvas 5195 wide.
C2_DimensionsFollowFormulas ==
    HasDims =>
        LET spine_in == PAPER_THICKNESS[args.paper] * args.pages
        IN  /\ NearestPx(spine_in, dims.spine_px)
            /\ NearestPx(2 * 125000 + 2 * trim[1] + spine_in, dims.total.w)
            /\ NearestPx(2 * 125000 + trim[2], dims.total.h)
            /\ (args.pages = 30 /\ args.paper = "white") => dims.spine_px = 20
            /\ (args.pages = 30 /\ args.paper = "white" /\ trim = <<8500000, 11000000>>)
                  => dims.total.w = 5195

C2_Witness ==
    /\ HasDims /\ args.pages = 30 /\ args.paper = "white"
    /\ args.trim = TRIM_LETTER
    /\ dims.spine_px = 20 /\ dims.total.w = 5195

\* C3: spine text is on the canvas only if a spine title was given, the page
\* count is at least 79 and the spine is wider than 0 pixels; below 79 pages
\* there is none, whatever the spine title.
C3_SpineTextOnlyFrom79Pages ==
    (tool = "cover" /\ "spine" \in Range(ops)) =>
        /\ args.spine_title # <<>>
        /\ args.pages >= 79
        /\ dims.spine_px > 0

C3_Witness ==
    /\ tool = "cover" /\ pc = "done" /\ "spine" \in Range(ops)
    /\ args.pages >= 79 /\ args.spine_title = <<SPINE_TEXT>>

\* the cover build has selected its preview images
HasSelection ==
    tool = "cover" /\ pc \notin {"idle", "main", "setup", "background", "load"}
    /\ err # "FileNotFoundError: images" /\ err # "ValueError"

\* C4: whenever interior images were discovered, the cover build selects at
\* least 2 and at most the requested maximum (clamped into 2..5) of them.
C4_SelectsBetweenTwoAndMax ==
    HasSelection =>
        /\ Len(interior_files) >= 2
        /\ Len(interior_files) <= args.max_images
        /\ args.max_images \in 2..5

\* the names of d that are the prefix, a number, and the extension
NumericImages(d) ==
    {n \in d : \E k \in 1..Len(n) :
        /\ Len(n) = Len(FBNP) + k + Len(DOT_PNG)
        /\ SubSeq(n, 1, Len(FBNP)) = FBNP
        /\ \A i \in (Len(FBNP) + 1)..(Len(FBNP) + k) : n[i] \in Digits
        /\ SubSeq(n, Len(FBNP) + k + 1, Len(n)) = DOT_PNG}

\* the number a numeric image's name carries
NumberOf(n) == IntOf(SubSeq(n, Len(FBNP) + 1, Len(n) - Len(DOT_PNG)))

\* the document is the belongs-to page, the copyright page, then one page per
\* numeric image of d in ascending numeric order
DocumentAsClaimed(doc, d) ==
    /\ Len(doc) = 2 + Cardinality(NumericImages(d))
    /\ doc[1].kind = "belongs_to" /\ doc[2].kind = "copyright"
    /\ \A i \in 3..Len(doc) : doc[i].kind = "coloring"
    /\ {doc[i].file : i \in 3..Len(doc)} = NumericImages(d)
    /\ \A i, j \in 3..Len(doc) : i < j => NumberOf(doc[i].file) <= NumberOf(doc[j].file)

\* C5: for a title directory with at least one numeric image (and the fonts in
\* place), build_interior writes the document of 2 + N pages: front matter, then
\* the images in ascending numeric order.
C5_InteriorHasAllPagesInOrder ==
    (/\ tool = "interior" /\ pc \in {"done", "failed"}
     /\ err \notin {"ValueError", "FileNotFoundError: font"}
     /\ NumericImages(seen_dir) # {})
        => /\ pc = "done"
           /\ DocumentAsClaimed(interior_doc, seen_dir)

\* the cover build has placed every sheet
LayoutComplete ==
    tool = "cover" /\ interior_files # <<>> /\ Len(sheets) = Len(interior_files)

\* the build before ran on the same arguments and the same directory
SameInputsAsBefore ==
    prev # <<>> /\ prev[1].args = args /\ prev[1].dir = seen_dir

\* C6: with a seed given, a cover build on the same inputs and the same
\* directory as the build before it selects the same images in the same
\* order, gives each the same box and the same angle, and leaves the generator
\* where that build left it, whatever state the generator started in.
C6_SeededLayoutRepeats ==
    (LayoutComplete /\ SameInputsAsBefore /\ args.seed # <<>>) =>
        /\ interior_files = prev[1].files
        /\ sheets = prev[1].sheets
        /\ rng = prev[1].rng

C6_Witness ==
    /\ LayoutComplete /\ SameInputsAsBefore /\ args.seed = <<42>>
    /\ Len(sheets) = 5 /\ sheets = prev[1].sheets

\* C7: once the converter has been looked for, the cover document is there and
\* the run has not failed: the converter wrote it when it was found and exited
\* with status zero, the imaging library when it was absent or exited non-zero.
C7_DocumentAlwaysProduced ==
    (tool = "cover" /\ magick # "unknown") =>
        /\ pc = "done" /\ err = ""
        /\ OUT_PNG \in dir /\ OUT_PDF \in dir
        /\ (magick = "zero") => pdf_by = "magick"
        /\ (magick \in {"absent", "nonzero"}) => pdf_by = "pillow"

C7_Witness ==
    /\ tool = "cover" /\ pc = "done" /\ magick = "nonzero"
    /\ pdf_by = "pillow" /\ OUT_PDF \in dir

\* C8: when no title font exists the cover build fails with not-found before
\* it has rendered anything: no background, no sheet, and nothing written.
C8_FontFailureBeforeRendering ==
    (tool = "cover" /\ pc = "failed" /\ err = "FileNotFoundError: font") =>
        /\ ops = <<>>
        /\ sheets = <<>>
        /\ pdf_by = "none"

\* a number: digits, or digits "." digits
IsNumber(t) ==
    \/ t # <<>> /\ \A i \in 1..Len(t) : t[i] \in Digits
    \/ \E k \in 2..(Len(t) - 1) :
          /\ t[k] = "."
          /\ \A i \in (1..Len(t)) \ {k} : t[i] \in Digits

\* the positions of the "x" that split s into a number, "x", a number
FormSplits(s) ==
    {k \in 1..Len(s) :
        s[k] = "x" /\ IsNumber(SubSeq(s, 1, k - 1)) /\ IsNumber(SubSeq(s, k + 1, Len(s)))}

OtherTool == IF tool = "cover" THEN "interior" ELSE "cover"

\* C9: parse_trim accepts exactly the texts <number>x<number>, gives those two
\* numbers, rejects every other text with ValueError before any geometry is
\* computed, and both entry points accept the same texts.
C9_TrimAcceptedIffNumberXNumber ==
    (tool \in {"cover", "interior"} /\ pc # "main") =>
        /\ (trim # <<>>) <=> (FormSplits(args.trim) # {})
        /\ (trim # <<>>) =>
              \A k \in FormSplits(args.trim) :
                 trim = <<FloatOf(SubSeq(args.trim, 1, k - 1)),
                          FloatOf(SubSeq(args.trim, k + 1, Len(args.trim)))>>
        /\ (trim = <<>>) => (pc = "failed" /\ err = "ValueError" /\ dims = NoDims)
        /\ (trim # <<>>) <=> (parse_trim(OtherTool, args.trim) # <<>>)

\* C10: the barcode rectangle lies within the back panel: its left edge at
\* least 0.25 in right of the panel's left trim edge, its right edge not past
\* the panel's right edge, its top and bottom between the bleed lines.
C10_BarcodeInsideBackPanel ==
    (tool = "cover" /\ barcode # <<>>) =>
        LET P == Panels(dims)
        IN  /\ barcode[1] >= P.left_x0 + inches_to_px(250000)
            /\ barcode[3] <= P.left_x1
            /\ barcode[2] >= P.bleed_px
            /\ barcode[4] <= dims.total.h - P.bleed_px

\* the background the --bg text names: the gradient of the variant's palette
\* (top colour at the top row, bottom colour at the bottom row), the solid hex
\* colour, or the default colour
NamedBackground(bg) ==
    IF StartsWith(bg, GRADIENT_PASTEL)
    THEN LET pal == PASTEL_PALETTES[GradientIndex(bg) + 1]
         IN  [top |-> pal[1], bottom |-> pal[2]]
    ELSE IF IsHexColor(bg)
    THEN Solid(IF bg[1] = "#" THEN bg ELSE <<"#">> \o bg)
    ELSE Solid(SOFT_TEAL)

\* C11: after the background step the canvas shows the background the --bg
\* text names: the clamped variant's gradient, the hex colour, or the default
\* colour; with a gradient asked for it is not the initial white fill.
C11_BackgroundIsTheOneNamed ==
    (tool = "cover" /\ "background" \in Range(ops)) =>
        /\ base_bg = NamedBackground(args.bg)
        /\ StartsWith(args.bg, GRADIENT_PASTEL) => base_bg # Solid(WHITE)

\* the sizes the title loop tries: 150, 146, ... while above 24
TitleSizesTried == {150 - 4 * k : k \in 0..31}

\* C12: the title size loop ends, and the size the title is rendered at is one
\* the loop tried, at which the title is no wider than 80% of the front panel,
\* and is not below 24.
C12_TitleSizeTriedAndFits ==
    (tool = "cover" /\ "title" \in Range(ops)) =>
        LET P == Panels(dims)
            max_title_w == ((P.right_x1 - P.right_x0) * 8) \div 10
        IN  /\ title_size \in TitleSizesTried
            /\ TextWidth(args.title_ems, title_size) <= max_title_w
            /\ title_size >= 24

\* the interior build has discovered its files, or failed doing so
InteriorDiscoveryDone ==
    /\ tool = "interior" /\ pc \in {"save", "done", "failed"}
    /\ err \notin {"ValueError", "FileNotFoundError: font"}

\* the files of the interior build's coloring pages, in page order
ColoringFiles == [i \in 1..(Len(pages) - 2) |-> pages[i + 2].file]

\* C13: on a directory earlier builds have written into, a build takes exactly
\* the numeric images for interior pages: the cover build selects none of the
\* outputs, the interior build does not fail on them, and the interior build's
\* files are the cover build's discovery, in the same order.
C13_OutputsNeverTakenForPages ==
    /\ HasSelection => Range(interior_files) \subseteq NumericImages(seen_dir)
    /\ (InteriorDiscoveryDone /\ NumericImages(seen_dir) # {}) =>
          /\ err = ""
          /\ ColoringFiles = CoverDiscovered(seen_dir)
          /\ Range(ColoringFiles) = NumericImages(seen_dir)
=============================================================================
